---- MODULE Spec2Model ----
(***************************************************************************)
(* Model of the resumable multi-layer download engine of docker-clone-py   *)
(* (src/app/docker_image.py, DockerImageDownloader) together with the      *)
(* output file it writes and the registry blob endpoint it reads.          *)
(*                                                                         *)
(* One download session (one DockerImageDownloader object) is modelled.    *)
(* Every start() call is a frame on the call stack of the thread that      *)
(* made it: a listener invoked by one of the three signals may call        *)
(* start() again, which pushes a frame on the same stack.                  *)
(*                                                                         *)
(* Bytes are integers: byte p (0-based) of the concatenation of all layer  *)
(* blobs is the integer p; Garbage is any byte that is not blob content    *)
(* (an error body, foreign file content, a hole).                          *)
(* Layer indices are 1-based here (index i is the code's index i-1).       *)
(*                                                                         *)
(* Three further parts of the program have their own variables, actions    *)
(* and specification, each leaving the variables of the others alone:      *)
(* the DockerImage object with its cached token and manifests              *)
(* (SpecResolver), the Signal object with its lock (SpecSignal), and       *)
(* parse_image_name (SpecParser).                                          *)
(***************************************************************************)
EXTENDS Integers, Sequences, FiniteSets, TLC

\* ---------------------------------------------------------------- bounds
MaxLayers == 2       \* longest layer catalog
MaxLayerSize == 2    \* largest layer size, in bytes
MaxTotal == 3        \* largest total size of a catalog, in bytes
MaxCalls == 2        \* start() calls made on the session
MaxRequests == 2     \* blob requests issued by the session

\* DockerImageDownloader.chunk_size, in bytes: 1024 in the source, scaled
\* down with the layer sizes so that a layer still spans several chunks
chunk_size == 1

Threads == {1, 2}
Garbage == -1
DeltaTimes == {1}   \* elapsed wall-clock time of one request, in ticks (never 0)

VARIABLES
  layers,          \* profile.layers: the catalog, as the sequence of layer sizes
  size,            \* self.__size
  downloaded,      \* self.__downloaded
  is_downloading,  \* self.__is_downloading
  bytes_per_sec,   \* self.__bytes_per_sec
  fs,              \* the file system: fs.path is the inode the output path
                   \* names (0: no such file), fs.inodes the file contents
  stack,           \* stack[t]: the start() frames of thread t, innermost last
  live,            \* the threads that use the session
  ncalls,          \* start() calls made so far
  nreq,            \* blob requests issued so far
  stream_failed    \* a blob request or its stream has raised

\* the session before any of it is used: an image with no layers
SessionUnused ==
  /\ layers = <<>> /\ size = 0 /\ downloaded = 0 /\ is_downloading = FALSE
  /\ bytes_per_sec = 0 /\ fs = [path |-> 0, inodes |-> <<>>, nopen |-> 0]
  /\ stack = [t \in Threads |-> <<>>] /\ live = {}
  /\ ncalls = 0 /\ nreq = 0 /\ stream_failed = FALSE

\* one DockerImage object and the registry it asks
VARIABLES
  manifests,   \* the manifest list the registry holds for the tag
  attrs,       \* the attributes load_and_cache has set on the DockerImage object
  nfetch,      \* GET requests issued so far, per endpoint
  last,        \* the last access made to the object and how it ended
  sessions,    \* the archs a DockerImageDownloader was constructed for
  blob_archs   \* the archs whose session was started (blobs requested)

resolver == <<manifests, attrs, nfetch, last, sessions, blob_archs>>

\* no DockerImage object is in use
ResolverUnused ==
  /\ manifests = <<>> /\ attrs = <<>> /\ nfetch = <<>> /\ last = <<>>
  /\ sessions = {} /\ blob_archs = {}

\* one Signal object and the threads that call it
VARIABLES
  listeners,   \* self._listeners
  lock,        \* self._lock: the thread that holds it, 0 when it is free
  sig,         \* sig[t]: the call of thread t on the signal and where it is
  nsig         \* calls made on the signal so far

channel == <<listeners, lock, sig, nsig>>

\* no Signal object is in use
ChannelUnused == listeners = <<>> /\ lock = 0 /\ sig = <<>> /\ nsig = 0

\* an image name on its way through parse_image_name
VARIABLES
  image_name,  \* the string given to from_image_name
  parsed       \* what parse_image_name made of it

parser == <<image_name, parsed>>

\* no image name is being parsed
ParserUnused == image_name = <<>> /\ parsed = <<>>

session == <<layers, size, downloaded, is_downloading, bytes_per_sec, fs, stack,
             live, ncalls, nreq, stream_failed>>

\* the parts of the program a download session does not touch
others == <<resolver, channel, parser>>

vars == <<session, resolver, channel, parser>>

\* a step of the DockerImage object, of the signal, of the parser alone
ResolverOnly == UNCHANGED <<session, channel, parser>>
SignalOnly == UNCHANGED <<session, resolver, parser>>
ParserOnly == UNCHANGED <<session, resolver, channel>>

\* ------------------------------------------------------------ pure parts
Min(a, b) == IF a < b THEN a ELSE b

RECURSIVE SumSizes(_)
SumSizes(ls) == IF ls = <<>> THEN 0 ELSE ls[1] + SumSizes(Tail(ls))

\* DockerImageDownloadProfile.size: reduce(sum + layer.size, layers, 0)
ProfileSize(ls) == SumSizes(ls)

\* the cumulative size of the first i layers
Cum(ls, i) == SumSizes(SubSeq(ls, 1, i))

\* the logical concatenation of all layer blobs in catalog order
Concat(ls) == [p \in 1..SumSizes(ls) |-> p - 1]

\* the blob of layer i, as the registry stores it
Blob(ls, i) == SubSeq(Concat(ls), Cum(ls, i - 1) + 1, Cum(ls, i))

None == [layer |-> 0, layer_downloaded |-> 0]

RECURSIVE NextLayerFrom(_, _, _, _)
NextLayerFrom(ls, d, i, sum) ==
  IF i > Len(ls) THEN None
  ELSE LET s == sum + ls[i]
       IN IF s > d
          THEN [layer |-> i, layer_downloaded |-> ls[i] - (s - d)]
          ELSE NextLayerFrom(ls, d, i + 1, s)

\* _get_next_layer with the comparison of line 367 off by one (sum >= downloaded)
RECURSIVE NextLayerFromOffByOne(_, _, _, _)
NextLayerFromOffByOne(ls, d, i, sum) ==
  IF i > Len(ls) THEN None
  ELSE LET s == sum + ls[i]
       IN IF s >= d
          THEN [layer |-> i, layer_downloaded |-> ls[i] - (s - d)]
          ELSE NextLayerFromOffByOne(ls, d, i + 1, s)

GetNextLayerOffByOne(ls, d) == NextLayerFromOffByOne(ls, d, 1, 0)

\* DockerImageDownloader._get_next_layer
GetNextLayer(ls, d) == NextLayerFrom(ls, d, 1, 0)

\* Python's round(n / d) for n >= 0, d > 0: ties go to the even integer
Round(n, d) ==
  LET q == n \div d
      r == n % d
  IN IF 2 * r < d THEN q
     ELSE IF 2 * r > d THEN q + 1
     ELSE IF q % 2 = 0 THEN q ELSE q + 1

\* DockerImageDownloader.progress: self.__downloaded / self.__size, the
\* fraction kept as <<numerator, denominator>>; the division raises when the
\* total size is 0
ZeroDivisionError == "ZeroDivisionError"
progress == IF size = 0 THEN ZeroDivisionError ELSE <<downloaded, size>>

\* ----------------------------------------------------------- file system
\* DockerImageDownloader.filepath fails (IndexError) when the catalog is
\* empty: file_name reads self.layers[0].extension
FilepathRaises == Len(layers) = 0

\* DockerImageDownloader.is_exists
is_exists == fs.path # 0

FileData == IF fs.path = 0 THEN <<>> ELSE fs.inodes[fs.path]

\* DockerImageDownloader.current_size
current_size == IF is_exists THEN Len(FileData) ELSE 0

\* a write of bytes at offset pos of a file opened 'wb'
WriteAt(data, pos, bytes) ==
  [p \in 1..(IF pos + Len(bytes) > Len(data) THEN pos + Len(bytes) ELSE Len(data)) |->
     IF p > pos /\ p <= pos + Len(bytes) THEN bytes[p - pos]
     ELSE IF p <= Len(data) THEN data[p]
     ELSE Garbage]

\* the file, after the buffer of handle f is written out
Flushed(f) ==
  IF f.fh = 0 \/ f.buf = <<>> THEN fs
  ELSE [fs EXCEPT !.inodes[f.fh] =
          IF f.mode = "ab" THEN @ \o f.buf ELSE WriteAt(@, f.pos, f.buf)]

\* the inodes that the path or an open handle of the frames st refers to
InUse(g, st) ==
  {g.path} \cup UNION {{st[t][d].fh : d \in 1..Len(st[t])} : t \in Threads}

\* the file system frees an inode that nothing refers to any more
Reclaim(g, st) ==
  [g EXCEPT !.inodes = [i \in 1..Len(@) |-> IF i \in InUse(g, st) THEN @[i] ELSE <<>>]]

\* the file system after the handle of frame f is closed, st being the
\* frames that remain: the buffer is written out and the descriptor released
CloseFile(f, st) ==
  IF f.fh = 0 THEN fs
  ELSE [Reclaim(Flushed(f), st) EXCEPT !.nopen = @ - 1]

\* line 355 with no close when an exception leaves the block
ExitOnRaiseLeaks(f, st) == fs

\* line 355: the with block closes the file when an exception leaves it
ExitOnRaise(f, st) == CloseFile(f, st)

\* the inode of a file that is created
FreeInode == CHOOSE i \in 1..(Len(fs.inodes) + 1) :
               /\ i \notin InUse(fs, stack)
               /\ \A j \in 1..(i - 1) : j \in InUse(fs, stack)

\* ---------------------------------------------------------------- frames
NewFrame(r) ==
  [pc |-> "guard", resume |-> r, is_resuming |-> FALSE,
   fh |-> 0, mode |-> "none", pos |-> 0, buf |-> <<>>,
   layer |-> 0, layer_downloaded |-> 0, resp |-> <<>>, resp_fails |-> FALSE,
   resp_ok |-> TRUE,
   ev |-> <<>>, noops |-> 0]

Depth(t) == Len(stack[t])
Top(t) == stack[t][Depth(t)]
At(t, p) == Depth(t) > 0 /\ Top(t).pc = p
SetTop(t, f) == [stack EXCEPT ![t][Depth(t)] = f]
Pop(t) == [stack EXCEPT ![t] = SubSeq(@, 1, Depth(t) - 1)]
Goto(t, p) == SetTop(t, [Top(t) EXCEPT !.pc = p])
InListener(t) == Depth(t) > 0 /\ Top(t).pc \in {"started", "updated", "completed"}

\* ------------------------------------------------------------------ Init
Catalogs ==
  {ls \in UNION {[1..n -> 0..MaxLayerSize] : n \in 0..MaxLayers} :
     SumSizes(ls) <= MaxTotal}

\* the output file before the session: absent, a prefix of the
\* concatenation, the concatenation with a byte too many, or foreign content
InitFiles(ls) ==
  {SubSeq(Concat(ls), 1, n) : n \in 0..SumSizes(ls)}
    \cup {Concat(ls) \o <<Garbage>>, <<Garbage>>}

InitSession(ls) ==
  /\ layers = ls
  /\ size = ProfileSize(ls)
  /\ downloaded = 0
  /\ is_downloading = FALSE
  /\ bytes_per_sec = 0
  /\ \/ fs = [path |-> 0, inodes |-> <<>>, nopen |-> 0]
     \/ \E d \in InitFiles(ls) : fs = [path |-> 1, inodes |-> <<d>>, nopen |-> 0]
  /\ stack = [t \in Threads |-> <<>>]
  /\ ncalls = 0
  /\ nreq = 0
  /\ stream_failed = FALSE

Init == /\ \E ls \in Catalogs : InitSession(ls)
        /\ live = {1}
        /\ ResolverUnused /\ ChannelUnused /\ ParserUnused

\* ----------------------------------------------------- the blob endpoint
\* what the registry may answer to GET <blob of layer i> with
\* Range: bytes=<o>-. requests.get raises for no status code, and
\* iter_content yields whatever body came, so each answer is a body and
\* whether the stream raises once the body is consumed (ok is res.ok, which
\* the code never reads):
\*   the requested remainder (206);
\*   a part of it, the stream then ending or raising;
\*   the whole blob, the Range header ignored (200);
\*   a non-2xx response with an empty or a non-empty error body.
Remainder(i, o) == SubSeq(Blob(layers, i), o + 1, layers[i])

Responses(i, o) ==
  {[ok |-> TRUE, body |-> Remainder(i, o), fails |-> FALSE]}
    \cup {[ok |-> TRUE, body |-> SubSeq(Remainder(i, o), 1, n), fails |-> b] :
            n \in 0..(layers[i] - o - 1), b \in BOOLEAN}
    \cup {[ok |-> TRUE, body |-> Blob(layers, i), fails |-> FALSE]}
    \cup {[ok |-> FALSE, body |-> e, fails |-> FALSE] : e \in {<<>>, <<Garbage>>}}

\* --------------------------------------------------------------- start()
\* a call of start(resume): by the program on an idle thread, or by a
\* listener that one of the signals is invoking
Call(t) ==
  /\ t \in live
  /\ ncalls < MaxCalls
  /\ Depth(t) = 0 \/ InListener(t)
  /\ \E r \in BOOLEAN : stack' = [stack EXCEPT ![t] = Append(@, NewFrame(r))]
  /\ ncalls' = ncalls + 1
  /\ UNCHANGED <<others, layers, size, downloaded, is_downloading, bytes_per_sec, fs,
                 live, nreq, stream_failed>>

\* line 339 with the guard left out
AlreadyDownloadingUnguarded == FALSE

\* line 339: if self.__is_downloading
AlreadyDownloading == is_downloading

\* the stack of t after its innermost call returned at the guard; the
\* calling frame, if any, counts it
Returned(t) ==
  IF Depth(t) = 1 THEN Pop(t)
  ELSE [stack EXCEPT ![t] =
          [SubSeq(@, 1, Depth(t) - 1) EXCEPT ![Depth(t) - 1].noops = @ + 1]]

\* lines 339-340: the guard; the call returns when already downloading
Guard(t) ==
  /\ At(t, "guard")
  /\ IF AlreadyDownloading
     THEN stack' = Returned(t)
     ELSE stack' = Goto(t, "reset")
  /\ UNCHANGED <<others, layers, size, downloaded, is_downloading, bytes_per_sec, fs,
                 live, ncalls, nreq, stream_failed>>

\* line 342: self.__downloaded = 0
Reset(t) ==
  /\ At(t, "reset")
  /\ downloaded' = 0
  /\ stack' = Goto(t, "remove")
  /\ UNCHANGED <<others, layers, size, is_downloading, bytes_per_sec, fs,
                 live, ncalls, nreq, stream_failed>>

\* line 346 with the removal left out
os_remove_skipped == fs

\* line 346: os.remove(self.filepath)
os_remove == Reclaim([fs EXCEPT !.path = 0], stack)

\* lines 345-346: if not resume and self.is_exists: os.remove(self.filepath)
Remove(t) ==
  /\ At(t, "remove")
  /\ IF Top(t).resume
     THEN stack' = Goto(t, "check") /\ fs' = fs
     ELSE IF FilepathRaises
          THEN stack' = Goto(t, "raise") /\ fs' = fs
          ELSE /\ stack' = Goto(t, "check")
               /\ fs' = IF is_exists THEN os_remove ELSE fs
  /\ UNCHANGED <<others, layers, size, downloaded, is_downloading, bytes_per_sec,
                 live, ncalls, nreq, stream_failed>>

\* lines 349-350: if self.is_exists: self.__downloaded = self.current_size
Check(t) ==
  /\ At(t, "check")
  /\ IF FilepathRaises
     THEN stack' = Goto(t, "raise") /\ downloaded' = downloaded
     ELSE /\ stack' = Goto(t, "resuming")
          /\ downloaded' = IF is_exists THEN current_size ELSE downloaded
  /\ UNCHANGED <<others, layers, size, is_downloading, bytes_per_sec, fs,
                 live, ncalls, nreq, stream_failed>>

\* line 352: is_resuming = self.__downloaded > 0
Resuming(t) ==
  /\ At(t, "resuming")
  /\ stack' = SetTop(t, [Top(t) EXCEPT !.pc = "flag", !.is_resuming = downloaded > 0])
  /\ UNCHANGED <<others, layers, size, downloaded, is_downloading, bytes_per_sec, fs,
                 live, ncalls, nreq, stream_failed>>

\* line 353: self.__is_downloading = True
Flag(t) ==
  /\ At(t, "flag")
  /\ is_downloading' = TRUE
  /\ stack' = Goto(t, "emit_started")
  /\ UNCHANGED <<others, layers, size, downloaded, bytes_per_sec, fs,
                 live, ncalls, nreq, stream_failed>>

\* a signal starts to emit the event e: the frame's record of its events
Emitted(t, e) == Append(Top(t).ev, [e |-> e, flag |-> is_downloading])

\* line 354: self.__signal_download_started.emit(self)
EmitStarted(t) ==
  /\ At(t, "emit_started")
  /\ stack' = SetTop(t, [Top(t) EXCEPT !.pc = "started", !.ev = Emitted(t, "started")])
  /\ UNCHANGED <<others, layers, size, downloaded, is_downloading, bytes_per_sec, fs,
                 live, ncalls, nreq, stream_failed>>

\* Signal.emit returns: every listener has returned
ListenerReturn(t) ==
  /\ InListener(t)
  /\ stack' = IF Top(t).pc = "started" THEN Goto(t, "open")
              ELSE IF Top(t).pc = "updated" THEN Goto(t, "loop")
              ELSE Pop(t)
  /\ UNCHANGED <<others, layers, size, downloaded, is_downloading, bytes_per_sec, fs,
                 live, ncalls, nreq, stream_failed>>

\* a listener raises: Signal.emit lets the exception through
ListenerRaise(t) ==
  /\ InListener(t)
  /\ stack' = Goto(t, "raise")
  /\ UNCHANGED <<others, layers, size, downloaded, is_downloading, bytes_per_sec, fs,
                 live, ncalls, nreq, stream_failed>>

\* line 355: open(self.filepath, 'ab' if is_resuming else 'wb')
Open(t) ==
  /\ At(t, "open")
  /\ LET f == Top(t)
         m == IF f.is_resuming THEN "ab" ELSE "wb"
         created == [path |-> FreeInode,
                     inodes |-> IF FreeInode > Len(fs.inodes)
                                THEN Append(fs.inodes, <<>>) ELSE fs.inodes,
                     nopen |-> fs.nopen]
         opened == IF ~is_exists THEN created
                   ELSE IF m = "wb" THEN [fs EXCEPT !.inodes[fs.path] = <<>>]
                   ELSE fs
     IN \/ /\ fs' = [opened EXCEPT !.nopen = @ + 1]
           /\ stack' = SetTop(t, [f EXCEPT !.pc = "loop", !.fh = opened.path,
                                          !.mode = m, !.pos = 0, !.buf = <<>>])
        \/ /\ fs' = fs   \* open raises (OSError)
           /\ stack' = Goto(t, "raise")
  /\ UNCHANGED <<others, layers, size, downloaded, is_downloading, bytes_per_sec,
                 live, ncalls, nreq, stream_failed>>

\* the handle of frame f closed: its buffer written out
Closed(f) == [f EXCEPT !.fh = 0, !.mode = "none", !.pos = 0, !.buf = <<>>]

\* line 356: while self.__downloaded < self.total_size; the with block
\* closes the file when the loop ends
Loop(t) ==
  /\ At(t, "loop")
  /\ IF downloaded < size
     THEN stack' = Goto(t, "next") /\ fs' = fs
     ELSE /\ stack' = SetTop(t, [Closed(Top(t)) EXCEPT !.pc = "unflag"])
          /\ fs' = CloseFile(Top(t), stack')
  /\ UNCHANGED <<others, layers, size, downloaded, is_downloading, bytes_per_sec,
                 live, ncalls, nreq, stream_failed>>

\* lines 375-380: next_layer_info = self._get_next_layer()
NextLayer(t) ==
  /\ At(t, "next")
  /\ LET r == GetNextLayer(layers, downloaded)
     IN stack' = IF r = None THEN Goto(t, "loop")
                 ELSE SetTop(t, [Top(t) EXCEPT !.pc = "get", !.layer = r.layer,
                                   !.layer_downloaded = r.layer_downloaded])
  /\ UNCHANGED <<others, layers, size, downloaded, is_downloading, bytes_per_sec, fs,
                 live, ncalls, nreq, stream_failed>>

\* lines 382-387: requests.get(layer.url, stream=True, headers={'Range': ...})
Get(t) ==
  /\ At(t, "get")
  /\ nreq < MaxRequests
  /\ nreq' = nreq + 1
  /\ LET f == Top(t)
     IN \/ /\ \E r \in Responses(f.layer, f.layer_downloaded) :
                stack' = SetTop(t, [f EXCEPT !.pc = "stream", !.resp = r.body,
                                      !.resp_fails = r.fails,
                                      !.resp_ok = r.ok,
                                      !.ev = Emitted(t, "request")])
           /\ stream_failed' = stream_failed
        \/ /\ stack' = Goto(t, "raise")   \* requests.get raises
           /\ stream_failed' = TRUE
  /\ UNCHANGED <<others, layers, size, downloaded, is_downloading, bytes_per_sec, fs,
                 live, ncalls>>

\* line 393 with = for +=
CountedAssigned(chunk) == Len(chunk)

\* line 393: self.__downloaded += len(chunk)
Counted(chunk) == downloaded + Len(chunk)

\* lines 390-393: one non-empty chunk: file.write(chunk) and
\* self.__downloaded += len(chunk). The write is buffered: the handle
\* keeps the chunk, after writing out what it held when its buffer is full.
Chunk(t) ==
  /\ At(t, "stream")
  /\ Top(t).resp # <<>>
  /\ LET f == Top(t)
     IN \E k \in 1..Min(chunk_size, Len(f.resp)) :
          LET chunk == SubSeq(f.resp, 1, k)
              rest == SubSeq(f.resp, k + 1, Len(f.resp))
          IN /\ downloaded' = Counted(chunk)
             /\ \/ /\ fs' = fs
                   /\ stack' = SetTop(t, [f EXCEPT !.resp = rest, !.buf = @ \o chunk])
                \/ /\ f.buf # <<>>
                   /\ fs' = Flushed(f)
                   /\ stack' = SetTop(t, [f EXCEPT !.resp = rest, !.buf = chunk,
                                                   !.pos = @ + Len(f.buf)])
  /\ UNCHANGED <<others, layers, size, is_downloading, bytes_per_sec,
                 live, ncalls, nreq, stream_failed>>

\* line 392: file.write(chunk) raises (OSError, the disk being full): the
\* chunk is not counted; what the handle had buffered is kept, to be
\* written out when the file is closed, or is lost with the failed write
WriteRaise(t) ==
  /\ At(t, "stream")
  /\ Top(t).resp # <<>>
  /\ \E kept \in BOOLEAN :
        stack' = SetTop(t, [Top(t) EXCEPT !.pc = "raise",
                                          !.buf = IF kept THEN @ ELSE <<>>])
  /\ UNCHANGED <<others, layers, size, downloaded, is_downloading, bytes_per_sec, fs,
                 live, ncalls, nreq, stream_failed>>

\* line 390: iter_content is exhausted, or raises
StreamEnd(t) ==
  /\ At(t, "stream")
  /\ Top(t).resp = <<>>
  /\ IF Top(t).resp_fails
     THEN stack' = Goto(t, "raise") /\ stream_failed' = TRUE
     ELSE stack' = Goto(t, "speed") /\ stream_failed' = stream_failed
  /\ UNCHANGED <<others, layers, size, downloaded, is_downloading, bytes_per_sec, fs,
                 live, ncalls, nreq>>

\* lines 395-398: self.__bytes_per_sec = round(downloaded_bytes / delta_time)
Speed(t) ==
  /\ At(t, "speed")
  /\ \E dt \in DeltaTimes :
        bytes_per_sec' = Round(layers[Top(t).layer] - Top(t).layer_downloaded, dt)
  /\ stack' = Goto(t, "emit_updated")
  /\ UNCHANGED <<others, layers, size, downloaded, is_downloading, fs,
                 live, ncalls, nreq, stream_failed>>

\* line 399: self.__signal_download_updated.emit(self)
EmitUpdated(t) ==
  /\ At(t, "emit_updated")
  /\ stack' = SetTop(t, [Top(t) EXCEPT !.pc = "updated", !.ev = Emitted(t, "updated")])
  /\ UNCHANGED <<others, layers, size, downloaded, is_downloading, bytes_per_sec, fs,
                 live, ncalls, nreq, stream_failed>>

\* lines 358-359 with the flag left set when completed is emitted
UnflagKept(t) ==
  /\ At(t, "unflag")
  /\ stack' = Goto(t, "emit_completed")
  /\ UNCHANGED <<others, layers, size, downloaded, is_downloading, bytes_per_sec, fs,
                 live, ncalls, nreq, stream_failed>>

\* line 358: self.__is_downloading = False
Unflag(t) ==
  /\ At(t, "unflag")
  /\ is_downloading' = FALSE
  /\ stack' = Goto(t, "emit_completed")
  /\ UNCHANGED <<others, layers, size, downloaded, bytes_per_sec, fs,
                 live, ncalls, nreq, stream_failed>>

\* line 359: self.__signal_download_completed.emit(self)
EmitCompleted(t) ==
  /\ At(t, "emit_completed")
  /\ stack' = SetTop(t, [Top(t) EXCEPT !.pc = "completed", !.ev = Emitted(t, "completed")])
  /\ UNCHANGED <<others, layers, size, downloaded, is_downloading, bytes_per_sec, fs,
                 live, ncalls, nreq, stream_failed>>

\* an exception leaves start(): the with block, if entered, closes the file;
\* nothing in start() catches it, so it reaches the caller, and when the
\* caller is a listener it goes on through Signal.emit into the outer start()
Unwind(t) ==
  /\ At(t, "raise")
  /\ stack' = IF Depth(t) = 1 THEN Pop(t)
              ELSE [stack EXCEPT ![t] =
                      [SubSeq(@, 1, Depth(t) - 1) EXCEPT ![Depth(t) - 1].pc = "raise"]]
  /\ fs' = ExitOnRaise(Top(t), stack')
  /\ UNCHANGED <<others, layers, size, downloaded, is_downloading, bytes_per_sec,
                 live, ncalls, nreq, stream_failed>>

Next ==
  \E t \in Threads :
    \/ Call(t)
    \/ Guard(t)
    \/ Reset(t)
    \/ Remove(t)
    \/ Check(t)
    \/ Resuming(t)
    \/ Flag(t)
    \/ EmitStarted(t)
    \/ ListenerReturn(t)
    \/ ListenerRaise(t)
    \/ Open(t)
    \/ Loop(t)
    \/ NextLayer(t)
    \/ Get(t)
    \/ Chunk(t)
    \/ WriteRaise(t)
    \/ StreamEnd(t)
    \/ Speed(t)
    \/ EmitUpdated(t)
    \/ Unflag(t)
    \/ EmitCompleted(t)
    \/ Unwind(t)

\* one thread uses the session (the scheduling model of the program)
Spec == Init /\ [][Next]_vars

\* two threads use the session, on an image of one layer
InitThreads == /\ \E ls \in {c \in Catalogs : Len(c) = 1} : InitSession(ls)
               /\ live = Threads
               /\ ResolverUnused /\ ChannelUnused /\ ParserUnused

SpecThreads == InitThreads /\ [][Next]_vars

\* ============================================================ DockerImage
\* One DockerImage object: its cached attributes, the registry's token and
\* manifest endpoints, and the download sessions made from it. An access is
\* one call from outside (a property read, get_layers, the construction of
\* a DockerImageDownloader, start); it runs to its end in one step, the
\* program being single-threaded, with the registry's answers chosen freely.
MaxManifests == 2    \* longest manifest list
MaxFetches == 2      \* GET requests issued to one endpoint

Archs == {"amd64", "mips"}

\* the status codes the endpoints answer with here: one 2xx, the 401 that
\* request_image_manifests singles out, one other non-2xx
Statuses == {200, 401, 404}

\* a requests.Response: a 401 carries the Www-Authenticate challenge
Challenge == "Bearer realm=\"https://auth.docker.io/token\""
StatusText(st) == CASE st = 200 -> "200" [] st = 401 -> "401" [] st = 404 -> "404"
Response(st) ==
  [status_code |-> st,
   ok |-> st < 400,
   text |-> IF st = 200 THEN "{...}" ELSE IF st = 401 THEN "UNAUTHORIZED"
            ELSE "MANIFEST_UNKNOWN",
   headers |-> IF st = 401 THEN [h \in {"Www-Authenticate"} |-> Challenge] ELSE <<>>]

\* DockerImageError(message), the message kept as the parts it is formatted from
DockerImageError(parts) == [type |-> "DockerImageError", msg |-> parts]

\* the manifest lists the registry may hold: entry i has digest i
ManifestLists ==
  UNION {[1..n -> [architecture : Archs]] : n \in 0..MaxManifests}
Digest(i) == i

\* the endpoints: the token endpoint, the manifest list of the tag, the
\* manifest of an arch
Endpoints == {"token", "manifests"} \cup Archs

\* the names load_and_cache keeps the values under, as the parts the
\* name is formatted from
TokenAttr == <<"_DockerImage__token">>
ManifestsAttr == <<"_DockerImage__images_manifest">>
ManifestAttr(arch) == <<"_DockerImage__image_manifest_", arch>>

\* the outcome of a call: the object and the request counts after it, and
\* the value returned (ok) or the exception raised (~ok)
Return(s, v) == [s |-> s, ok |-> TRUE, val |-> v]
Raise(s, e) == [s |-> s, ok |-> FALSE, val |-> e]
Fetched(s, e) == [s EXCEPT !.nfetch[e] = @ + 1]

\* utils.load_and_cache with the setattr left out
load_and_cache_unset(s, name, gen) ==
  IF name \in DOMAIN s.attrs THEN Return(s, s.attrs[name]) ELSE gen

\* utils.load_and_cache(obj, name, generator); gen is the outcome of
\* generator(), which is only run when the attribute is not set
load_and_cache(s, name, gen) ==
  IF name \in DOMAIN s.attrs THEN Return(s, s.attrs[name])
  ELSE IF ~gen.ok THEN gen
  ELSE Return([gen.s EXCEPT !.attrs = (name :> gen.val) @@ @], gen.val)

\* DockerImage.request_access_token
request_access_token(s, env) ==
  LET response == Response(env.token)
  IN IF response.ok THEN Return(Fetched(s, "token"), "token")
     ELSE Raise(Fetched(s, "token"),
                DockerImageError(<<"Failed to get token: ",
                                   StatusText(response.status_code), ": ",
                                   response.text>>))

\* DockerImage.token
token(s, env) == load_and_cache(s, TokenAttr, request_access_token(s, env))

\* DockerImage.request_image_manifests with the 401 case left out
request_image_manifests_plain(s, env) ==
  LET response == Response(env.manifests)
  IN IF response.ok THEN Return(Fetched(s, "manifests"), manifests)
     ELSE Raise(Fetched(s, "manifests"),
                DockerImageError(<<"Failed to get manifests: ",
                                   StatusText(response.status_code), ": ",
                                   response.text>>))

\* DockerImage.request_image_manifests
request_image_manifests(s, env) ==
  LET response == Response(env.manifests)
  IN IF response.ok THEN Return(Fetched(s, "manifests"), manifests)
     ELSE IF response.status_code = 401
     THEN Raise(Fetched(s, "manifests"),
                DockerImageError(<<"Failed to get manifests: Required Token: ",
                                   response.headers["Www-Authenticate"]>>))
     ELSE Raise(Fetched(s, "manifests"),
                DockerImageError(<<"Failed to get manifests: ",
                                   StatusText(response.status_code), ": ",
                                   response.text>>))

\* DockerImage.image_manifests: the generator reads self.token, then requests
image_manifests(s, env) ==
  load_and_cache(s, ManifestsAttr,
                 LET t == token(s, env)
                 IN IF ~t.ok THEN t ELSE request_image_manifests(t.s, env))

\* DockerImage.get_image_by_arch with the first entry for an arch not listed
get_image_by_arch_default(s, env, arch) ==
  LET m == image_manifests(s, env)
  IN IF ~m.ok THEN m
     ELSE IF \E i \in DOMAIN m.val : m.val[i].architecture = arch
     THEN Return(m.s, CHOOSE i \in DOMAIN m.val :
                        /\ m.val[i].architecture = arch
                        /\ \A j \in 1..(i - 1) : m.val[j].architecture # arch)
     ELSE Return(m.s, 1)

\* DockerImage.get_image_by_arch: the first entry of the list for the arch,
\* as its index
get_image_by_arch(s, env, arch) ==
  LET m == image_manifests(s, env)
  IN IF ~m.ok THEN m
     ELSE IF \E i \in DOMAIN m.val : m.val[i].architecture = arch
     THEN Return(m.s, CHOOSE i \in DOMAIN m.val :
                        /\ m.val[i].architecture = arch
                        /\ \A j \in 1..(i - 1) : m.val[j].architecture # arch)
     ELSE Raise(m.s, DockerImageError(<<"No image for arch: ", arch>>))

\* DockerImage.get_arch_image_digest
get_arch_image_digest(s, env, arch) ==
  LET mini == get_image_by_arch(s, env, arch)
  IN IF ~mini.ok THEN mini ELSE Return(mini.s, Digest(mini.val))

\* DockerImage.get_image_manifest: the generator finds the digest, reads
\* self.token and requests the manifest
get_image_manifest(s, env, arch) ==
  load_and_cache(s, ManifestAttr(arch),
    LET digest == get_arch_image_digest(s, env, arch)
    IN IF ~digest.ok THEN digest
       ELSE LET t == token(digest.s, env)
                res == Response(env.arch)
            IN IF ~t.ok THEN t
               ELSE IF res.ok
               THEN Return(Fetched(t.s, arch), [digest |-> digest.val])
               ELSE Raise(Fetched(t.s, arch),
                          DockerImageError(<<"Failed to get manifest: ",
                                             StatusText(res.status_code), ": ",
                                             res.text>>)))

\* DockerImage.get_layers
get_layers(s, env, arch) == get_image_manifest(s, env, arch)

\* the answers the three endpoints give during one access: those of the
\* token endpoint alone, of the token endpoint and the manifest list, of
\* all. An access asks the token endpoint, the manifest list and the arch
\* manifest in this order and ends at the first answer that is not 2xx, so
\* the answers of the endpoints after that one are left at 200.
Envs ==
  {env \in [token : Statuses, manifests : Statuses, arch : Statuses] :
     /\ env.token # 200 => env.manifests = 200 /\ env.arch = 200
     /\ env.manifests # 200 => env.arch = 200}
TokenEnvs == {env \in Envs : env.manifests = 200 /\ env.arch = 200}
ManifestsEnvs == {env \in Envs : env.arch = 200}

Object == [attrs |-> attrs, nfetch |-> nfetch]

\* the access op (on arch) ended as r, the endpoints answering env: the
\* object keeps what r left, and last tells what was asked of the manifest
\* endpoint during the access (0: nothing) and what the access raised
Done(op, arch, env, r) ==
  /\ \A e \in Endpoints : r.s.nfetch[e] <= MaxFetches
  /\ attrs' = r.s.attrs
  /\ nfetch' = r.s.nfetch
  /\ last' = [op |-> op, arch |-> arch, ok |-> r.ok,
              raised |-> IF r.ok THEN <<>> ELSE r.val.msg,
              list_status |-> IF r.s.nfetch["manifests"] > nfetch["manifests"]
                              THEN env.manifests ELSE 0,
              arch_status |-> IF arch \in Archs /\ r.s.nfetch[arch] > nfetch[arch]
                              THEN env.arch ELSE 0]

\* image.token is read
ReadToken ==
  /\ \E env \in TokenEnvs : Done("token", "", env, token(Object, env))
  /\ UNCHANGED <<manifests, sessions, blob_archs>>
  /\ ResolverOnly

\* image.image_manifests is read (manifests_list, platforms, get_arches)
ReadManifests ==
  /\ \E env \in ManifestsEnvs : Done("image_manifests", "", env, image_manifests(Object, env))
  /\ UNCHANGED <<manifests, sessions, blob_archs>>
  /\ ResolverOnly

\* image.get_layers(arch) is called (profile.layers, profile.size)
GetLayers ==
  /\ \E env \in Envs, arch \in Archs :
        Done("get_layers", arch, env, get_layers(Object, env, arch))
  /\ UNCHANGED <<manifests, sessions, blob_archs>>
  /\ ResolverOnly

\* DockerImageDownloader.__init__ (lines 254-258) for a profile of arch:
\* self.__size = downloadProfile.size reads the layers; the session exists
\* when the constructor returns
CreateDownloader ==
  /\ \E env \in Envs, arch \in Archs :
        LET r == get_layers(Object, env, arch)
        IN /\ Done("create_downloader", arch, env, r)
           /\ sessions' = IF r.ok THEN sessions \cup {arch} ELSE sessions
  /\ UNCHANGED <<manifests, blob_archs>>
  /\ ResolverOnly

\* start() of a session made before: its loop reads profile.layers and
\* requests the blobs of the layers (the call itself is modelled in Spec)
StartSession ==
  /\ \E env \in Envs, arch \in sessions :
        LET r == get_layers(Object, env, arch)
        IN /\ Done("start", arch, env, r)
           /\ blob_archs' = IF r.ok THEN blob_archs \cup {arch} ELSE blob_archs
  /\ UNCHANGED <<manifests, sessions>>
  /\ ResolverOnly

InitResolver ==
  /\ manifests \in ManifestLists
  /\ attrs = <<>>
  /\ nfetch = [e \in Endpoints |-> 0]
  /\ last = [op |-> "none", arch |-> "", ok |-> TRUE, raised |-> <<>>,
             list_status |-> 0, arch_status |-> 0]
  /\ sessions = {}
  /\ blob_archs = {}
  /\ SessionUnused /\ ChannelUnused /\ ParserUnused

NextResolver ==
  \/ ReadToken
  \/ ReadManifests
  \/ GetLayers
  \/ CreateDownloader
  \/ StartSession

\* one thread uses a DockerImage object
SpecResolver == InitResolver /\ [][NextResolver]_vars

\* ================================================================= Signal
\* One Signal object (src/app/signal.py) used by the threads of Threads.
\* A call of connect, disconnect, clear or emit first takes self._lock,
\* which threading.Lock grants to one thread at a time; a listener that
\* emit invokes returns, raises, or calls a method of the signal itself.
MaxListeners == 2      \* longest list of listeners
MaxSignalCalls == 3    \* calls made on the signal

Listeners == {"f", "g"}
Operations == {"connect", "disconnect", "emit", "clear"}

\* the lists self._listeners may hold
ListenerLists == UNION {[1..n -> Listeners] : n \in 0..MaxListeners}

\* thread t is in no call of the signal. sig[t] is the innermost call of
\* the thread; outer is empty, or holds the emit whose listener made the call
NoCall ==
  [pc |-> "idle", op |-> "none", listener |-> "none", snap |-> <<>>,
   idx |-> 0, invoked |-> <<>>, raised |-> FALSE, outer |-> <<>>]

\* sig[t] once the call c of thread t has ended: the thread is in no call,
\* or back in the listener that made the call
Back(c) == IF c.outer = <<>> THEN [c EXCEPT !.pc = "idle"] ELSE c.outer[1]

\* the threads in a connect call that has not appended yet
Connecting == {t \in Threads : sig[t].op = "connect" /\ sig[t].pc # "idle"}

\* a thread calls connect(listener), disconnect(listener), emit() or clear()
SignalCall(t) ==
  /\ sig[t].pc = "idle"
  /\ nsig < MaxSignalCalls
  /\ nsig' = nsig + 1
  /\ \E op \in Operations, l \in Listeners :
       /\ op = "connect" => Len(listeners) + Cardinality(Connecting) < MaxListeners
       /\ op \in {"emit", "clear"} => l = "f"
       /\ sig' = [sig EXCEPT ![t] = [NoCall EXCEPT !.pc = "acquire", !.op = op,
                      !.listener = IF op \in {"emit", "clear"} THEN "none" ELSE l]]
  /\ UNCHANGED <<listeners, lock>>
  /\ SignalOnly

\* self._lock taking no notice of its holder
HeldNever(t) == FALSE

\* self._lock as a threading.RLock: the thread that holds it passes
HeldByOther(t) == lock \notin {0, t}

\* self._lock is held: acquire blocks thread t, whoever holds the lock
\* (threading.Lock is not reentrant)
Held(t) == lock # 0

\* with self._lock: the thread waits until the lock is free and takes it;
\* snap is the list at that moment, for emit
Acquire(t) ==
  /\ sig[t].pc = "acquire"
  /\ ~Held(t)
  /\ lock' = t
  /\ sig' = [sig EXCEPT ![t].pc = IF sig[t].op = "emit" THEN "iterate" ELSE "mutate",
                        ![t].snap = IF sig[t].op = "emit" THEN listeners ELSE <<>>,
                        ![t].idx = 1]
  /\ UNCHANGED <<listeners, nsig>>
  /\ SignalOnly

\* list.remove(x): the list without the first x
RECURSIVE Removed(_, _)
Removed(ls, x) ==
  IF ls = <<>> THEN <<>>
  ELSE IF Head(ls) = x THEN Tail(ls)
  ELSE <<Head(ls)>> \o Removed(Tail(ls), x)

\* lines 28, 33-34, 45: the body of connect, disconnect, clear, and the
\* release of the lock at the end of the with block
Mutate(t) ==
  /\ sig[t].pc = "mutate"
  /\ listeners' = CASE sig[t].op = "connect" -> Append(listeners, sig[t].listener)
                    [] sig[t].op = "disconnect" -> Removed(listeners, sig[t].listener)
                    [] sig[t].op = "clear" -> <<>>
  /\ lock' = 0
  /\ sig' = [sig EXCEPT ![t] = Back(@)]
  /\ UNCHANGED nsig
  /\ SignalOnly

\* line 39: for listener in self._listeners: the iterator takes the element
\* at its index of the list as it is now, and line 40 calls it; past the end
\* the loop and the with block end
Iterate(t) ==
  /\ sig[t].pc = "iterate"
  /\ IF sig[t].idx <= Len(listeners)
     THEN /\ sig' = [sig EXCEPT ![t].pc = "listener", ![t].idx = @ + 1,
                                ![t].invoked = Append(@, listeners[sig[t].idx])]
          /\ lock' = lock
     ELSE /\ sig' = [sig EXCEPT ![t] = Back(@)]
          /\ lock' = 0
  /\ UNCHANGED <<listeners, nsig>>
  /\ SignalOnly

\* line 40: the listener returns
ListenerReturns(t) ==
  /\ sig[t].pc = "listener"
  /\ sig' = [sig EXCEPT ![t].pc = "iterate"]
  /\ UNCHANGED <<listeners, lock, nsig>>
  /\ SignalOnly

\* line 40: the listener raises; the exception leaves the loop, the with
\* block, which releases the lock, and emit
ListenerRaises(t) ==
  /\ sig[t].pc = "listener"
  /\ sig' = [sig EXCEPT ![t] = Back([@ EXCEPT !.raised = TRUE])]
  /\ lock' = 0
  /\ UNCHANGED <<listeners, nsig>>
  /\ SignalOnly

\* line 40: the listener calls connect, disconnect, emit or clear of the
\* signal that is invoking it, on the thread that holds the lock
ListenerCalls(t) ==
  /\ sig[t].pc = "listener"
  /\ nsig < MaxSignalCalls
  /\ nsig' = nsig + 1
  /\ \E op \in Operations, l \in Listeners :
       /\ op = "connect" => Len(listeners) + Cardinality(Connecting) < MaxListeners
       /\ op \in {"emit", "clear"} => l = "f"
       /\ sig' = [sig EXCEPT ![t] = [NoCall EXCEPT !.pc = "acquire", !.op = op,
                      !.listener = IF op \in {"emit", "clear"} THEN "none" ELSE l,
                      !.outer = <<sig[t]>>]]
  /\ UNCHANGED <<listeners, lock>>
  /\ SignalOnly

\* Signal.__init__ and the connect calls made before the threads start
InitSignal ==
  /\ listeners \in ListenerLists
  /\ lock = 0
  /\ sig = [t \in Threads |-> NoCall]
  /\ nsig = 0
  /\ SessionUnused /\ ResolverUnused /\ ParserUnused

NextSignal ==
  \E t \in Threads :
    \/ SignalCall(t)
    \/ Acquire(t)
    \/ Mutate(t)
    \/ Iterate(t)
    \/ ListenerReturns(t)
    \/ ListenerRaises(t)
    \/ ListenerCalls(t)

\* two threads use one Signal
SpecSignal == InitSignal /\ [][NextSignal]_vars

\* a thread inside a method of the signal goes on: it is scheduled, the
\* lock is granted to it once it stays free, and a listener that was called
\* comes to return, raise or call
Proceeds(t) ==
  \/ Acquire(t)
  \/ Mutate(t)
  \/ Iterate(t)
  \/ ListenerReturns(t)
  \/ ListenerRaises(t)
  \/ ListenerCalls(t)

SpecSignalFair == SpecSignal /\ \A t \in Threads : WF_vars(Proceeds(t))

\* ======================================================= parse_image_name
\* An image name is a string, here a sequence over an alphabet of '/', ':'
\* and three symbols that each stand for a run of other characters.
MaxNameLen == 5    \* longest image name given to from_image_name

Alphabet == {"library", "ubuntu", "latest", "/", ":"}
ImageNames == UNION {[1..n -> Alphabet] : n \in 0..MaxNameLen}

\* sep in s
In(sep, s) == \E i \in DOMAIN s : s[i] = sep

\* s.split(sep): the parts of s between the occurrences of sep
RECURSIVE Split(_, _)
Split(s, sep) ==
  IF ~In(sep, s) THEN <<s>>
  ELSE LET i == CHOOSE i \in DOMAIN s :
                  s[i] = sep /\ \A j \in 1..(i - 1) : s[j] # sep
       IN <<SubSeq(s, 1, i - 1)>> \o Split(SubSeq(s, i + 1, Len(s)), sep)

\* what parse_image_name gives: a triple, or the ValueError of an unpacking
\* of more than two parts
NotParsed == [state |-> "none", repo |-> <<>>, name |-> <<>>, tag |-> <<>>]
ValueError == [state |-> "ValueError", repo |-> <<>>, name |-> <<>>, tag |-> <<>>]
Triple(repo, name, tag) == [state |-> "ok", repo |-> repo, name |-> name, tag |-> tag]

\* parse_image_name with line 152 left out: name stays None without a ':'
parse_image_name_unnamed(s) ==
  LET a == Split(s, "/")
  IN IF In("/", s) /\ Len(a) # 2 THEN ValueError
     ELSE LET repo == IF In("/", s) THEN a[1] ELSE <<"library">>
              rest == IF In("/", s) THEN a[2] ELSE s
              b == Split(rest, ":")
          IN IF In(":", rest) /\ Len(b) # 2 THEN ValueError
             ELSE IF In(":", rest) THEN Triple(repo, b[1], b[2])
             ELSE Triple(repo, <<"None">>, <<"latest">>)

\* DockerImage.parse_image_name (lines 144-153)
parse_image_name(s) ==
  LET a == Split(s, "/")
  IN IF In("/", s) /\ Len(a) # 2 THEN ValueError
     ELSE LET repo == IF In("/", s) THEN a[1] ELSE <<"library">>
              rest == IF In("/", s) THEN a[2] ELSE s
              b == Split(rest, ":")
          IN IF In(":", rest) /\ Len(b) # 2 THEN ValueError
             ELSE IF In(":", rest) THEN Triple(repo, b[1], b[2])
             ELSE Triple(repo, rest, <<"latest">>)

\* DockerImage.image_name: f"{self.repo}/{self.name}:{self.tag}"
ImageNameOf(p) == p.repo \o <<"/">> \o p.name \o <<":">> \o p.tag

\* DockerImage.from_image_name(image_name)
FromImageName ==
  /\ parsed.state = "none"
  /\ parsed' = parse_image_name(image_name)
  /\ UNCHANGED image_name
  /\ ParserOnly

\* the image_name of the DockerImage made is read, to be parsed again
ReadImageName ==
  /\ parsed.state = "ok"
  /\ image_name' = ImageNameOf(parsed)
  /\ parsed' = NotParsed
  /\ ParserOnly

InitParser ==
  /\ image_name \in ImageNames
  /\ parsed = NotParsed
  /\ SessionUnused /\ ResolverUnused /\ ChannelUnused

NextParser == FromImageName \/ ReadImageName

SpecParser == InitParser /\ [][NextParser]_vars

\* ================================================================ claims
Frames == {<<t, d>> \in Threads \X (1..MaxCalls) : d <= Depth(t)}
Frame(td) == stack[td[1]][td[2]]

\* C1: in every reachable state of a download session the downloaded-byte
\* counter satisfies 0 <= downloaded <= total size.
C1_DownloadedWithinTotal == 0 <= downloaded /\ downloaded <= size

\* C2: whenever a start call finishes successfully (completed is emitted),
\* the on-disk size of the output file equals the total size.
C2_CompletedFileSizeIsTotal ==
  \A t \in Threads : At(t, "completed") => is_exists /\ current_size = size

\* the first layer whose cumulative size exceeds d
FirstExceeding(ls, d) ==
  CHOOSE i \in 1..Len(ls) :
    /\ Cum(ls, i) > d
    /\ \A j \in 1..(i - 1) : Cum(ls, j) <= d

ResumePoint(ls, d) ==
  IF d >= SumSizes(ls) THEN None
  ELSE LET i == FirstExceeding(ls, d)
       IN [layer |-> i, layer_downloaded |-> d - Cum(ls, i - 1)]

\* C3: for every catalog and every downloaded value, _get_next_layer returns
\* the first layer whose cumulative size exceeds downloaded, with intra-layer
\* offset downloaded - (sizes of the layers before it), and no layer exactly
\* when downloaded >= total; sizes [100,200,50] and downloaded 250 give the
\* second layer with offset 150; the layer and offset a start call requests
\* are the ones of its counter.
C3_ResumeMapping ==
  /\ \A d \in 0..(size + 1) : GetNextLayer(layers, d) = ResumePoint(layers, d)
  /\ GetNextLayer(<<100, 200, 50>>, 250) = [layer |-> 2, layer_downloaded |-> 150]
  /\ GetNextLayer(<<100, 200, 50>>, 300) = [layer |-> 3, layer_downloaded |-> 0]
  /\ GetNextLayer(<<100, 200, 50>>, 350) = None
  /\ \A t \in Threads :
       At(t, "get") =>
         /\ downloaded < SumSizes(layers)
         /\ Top(t).layer = ResumePoint(layers, downloaded).layer
         /\ Top(t).layer_downloaded = ResumePoint(layers, downloaded).layer_downloaded

\* C3 witness: a start call has located a resume point inside the second layer
C3_Witness ==
  \E t \in Threads :
    At(t, "get") /\ Top(t).layer = 2 /\ Top(t).layer_downloaded = 1 /\ Top(t).resume

Idle == \A t \in Threads : Depth(t) = 0

\* C4: when a failure during blob streaming propagates out of start(), the
\* output file holds exactly the bytes written before the failure, and a
\* later start(resume=true) on that session is not turned away: it passes
\* the guard, takes the on-disk size as its downloaded counter and goes on
\* with the transfer.
C4_ResumeAfterFailure ==
  /\ [](stream_failed /\ Idle => current_size = downloaded)
  /\ [][\A t \in Threads :
          (stream_failed /\ Depth(t) = 1 /\ At(t, "guard") /\ Top(t).resume
             /\ stack'[t] # stack[t])
            => (Depth(t) = 1 /\ At(t, "reset"))']_vars

IsPrefix(a, b) == Len(a) <= Len(b) /\ a = SubSeq(b, 1, Len(a))

FileIsPrefix == ~is_exists \/ IsPrefix(FileData, Concat(layers))

\* C5: the output file is always a prefix of the concatenation of all layer
\* blobs in catalog order: no step of the engine turns a file that is such
\* a prefix (or absent) into one that is not.
C5_FileStaysPrefix == [][FileIsPrefix => FileIsPrefix']_vars

\* a start(resume=false) call ends its prologue: it returns at the guard, or
\* it has reset, removed and re-read the file (lines 339-350)
RestartDecided(t) ==
  /\ Depth(t) > 0
  /\ ~Top(t).resume
  /\ \/ At(t, "guard") /\ Depth(t)' = Depth(t) - 1
     \/ At(t, "check") /\ At(t, "resuming")'

\* C6 as stated: every start(resume=false) call deletes any pre-existing
\* output file and restarts the downloaded counter at 0, whatever the
\* prior state of the session.
C6_RestartAlways ==
  [][\A t \in Threads : RestartDecided(t) => (downloaded = 0 /\ ~is_exists)']_vars

\* C6 as amended: a start(resume=false) call that passes the is-downloading
\* guard restarts the downloaded counter at 0 and, once its removal step has
\* run, no output file exists and the counter is still 0 until the call
\* opens the file, for truncating write.
C6_RestartPastGuard ==
  \A td \in Frames :
    LET f == Frame(td)
    IN ~f.resume =>
         /\ f.pc \in {"remove", "check", "resuming", "flag", "emit_started",
                      "started", "open"}
              => downloaded = 0
         /\ f.pc \in {"check", "resuming", "flag", "emit_started", "started", "open"}
              => ~is_exists
         /\ f.pc \in {"flag", "emit_started", "started", "open"} => ~f.is_resuming

\* C6 witness: a second start call, with resume=false, has removed the file
\* an earlier call left and has re-read the disk
C6_Witness ==
  \E t \in Threads :
    /\ At(t, "resuming") /\ ~Top(t).resume
    /\ ncalls >= 2 /\ ~is_exists /\ Len(fs.inodes) > 0 /\ downloaded = 0

\* C7: a start() call made while the session is already downloading returns
\* without side effects: the counter, the flag, the file, every open handle
\* and the speed sample are unchanged, no blob request is issued and no
\* event is emitted; the calling listener continues where it was.
C7_ReentrantStartIsNoop ==
  [][\A t \in Threads :
       (At(t, "guard") /\ is_downloading /\ stack'[t] # stack[t])
         => /\ Depth(t)' = Depth(t) - 1
            /\ UNCHANGED <<downloaded, is_downloading, bytes_per_sec, fs, nreq>>
            /\ \A d \in 1..(Depth(t) - 1) :
                 /\ stack'[t][d].pc = stack[t][d].pc
                 /\ stack'[t][d].ev = stack[t][d].ev
                 /\ stack'[t][d].fh = stack[t][d].fh
                 /\ stack'[t][d].buf = stack[t][d].buf
                 /\ stack'[t][d].resp = stack[t][d].resp]_vars

\* C7 witness: a listener of updated has called start() in the middle of a
\* transfer, and the call has returned
C7_Witness ==
  \E t \in Threads :
    /\ At(t, "updated") /\ Top(t).noops > 0
    /\ is_downloading /\ downloaded > 0 /\ downloaded < size

\* a start() call in its transfer: past the guard, the flag not yet reset
InTransfer(f) ==
  f.pc \in {"reset", "remove", "check", "resuming", "flag", "emit_started",
            "started", "open", "loop", "next", "get", "stream", "speed",
            "emit_updated", "updated", "unflag"}

\* C8: of the start() calls made on one session from two threads, at most
\* one is past the guard and in its transfer at any time.
C8_OneStartPastGuard ==
  Cardinality({td \in Frames : InTransfer(Frame(td))}) <= 1

\* C9: with an empty layer catalog, start() raises no error: it emits
\* started and completed and returns.
C9_EmptyCatalogCompletes ==
  \A t \in Threads : layers = <<>> => ~At(t, "raise")

\* the events of a call, in order: started first and once, with the flag
\* set; updated right after each blob request and nowhere else; completed
\* once and last, with the flag reset
EventsOrdered(f) ==
  LET ev == f.ev
      n == Len(ev)
  IN /\ f.pc \in {"guard", "reset", "remove", "check", "resuming", "flag",
                  "emit_started"} => ev = <<>>
     /\ f.pc \notin {"guard", "reset", "remove", "check", "resuming", "flag",
                     "emit_started", "raise"} => n > 0
     /\ n > 0 => ev[1].e = "started" /\ ev[1].flag
     /\ \A i \in 2..n : ev[i].e # "started"
     /\ \A i \in 1..n : ev[i].e = "updated" => i > 1 /\ ev[i - 1].e = "request"
     /\ \A i \in 1..(n - 1) : ev[i].e = "request" => ev[i + 1].e = "updated"
     /\ \A i \in 1..n : ev[i].e = "completed" => i = n /\ ~ev[i].flag
     /\ f.pc \in {"loop", "next", "get", "unflag", "emit_completed"}
          => ev[n].e \in {"started", "updated"}
     /\ f.pc = "completed" => n > 1 /\ ev[n].e = "completed"
                              /\ ev[n - 1].e \in {"started", "updated"}

\* C10: for every start() call that passes the guard, the events are
\* ordered: started exactly once and first, with is-downloading true;
\* updated only between started and completed, exactly once after each blob
\* request; completed exactly once and last, with is-downloading false.
C10_EventsOrdered == \A td \in Frames : EventsOrdered(Frame(td))

\* C10 witness: a call that made two blob requests is emitting completed
C10_Witness ==
  \E t \in Threads :
    /\ At(t, "completed") /\ Len(Top(t).ev) = 6
    /\ Top(t).ev[2].e = "request" /\ Top(t).ev[4].e = "request"

\* a frame whose listeners are being called
AtEvent(f) == f.pc \in {"started", "updated", "completed"}

Streamed(f) == f.pc \in {"speed", "emit_updated", "updated"}

\* C12: a failure while retrieving a layer blob (a non-2xx response, or a
\* stream that ends before the requested remainder is delivered) is fatal to
\* the start call: the call raises, so it never goes on past a response that
\* was not 2xx or that left its layer incomplete, and issues no further GET
\* for that layer.
C12_BlobFailureIsFatal ==
  \A td \in Frames :
    Streamed(Frame(td)) =>
      /\ Frame(td).resp_ok
      /\ downloaded >= Cum(layers, Frame(td).layer)

\* the frames that hold an open handle
Holding == {td \in Frames : Frame(td).fh # 0}

\* C16: a session holds at most one open output-file handle at a time, and
\* the handle a start call opened is closed whenever that call has ended, on
\* normal completion and on a propagated failure alike (a blob request error,
\* a write error, a listener raising in updated): the open descriptors are
\* those of the calls still inside their with block, at most one, and none
\* once the call has left the block or ended.
C16_OneHandleClosedAtEnd ==
  /\ fs.nopen = Cardinality(Holding)
  /\ fs.nopen <= 1
  /\ \A td \in Holding :
       Frame(td).pc \in {"loop", "next", "get", "stream", "speed",
                         "emit_updated", "updated", "raise"}
  /\ Idle => fs.nopen = 0

\* a start call that had the file open has ended by a propagated failure
C16_Witness ==
  /\ Idle /\ is_downloading /\ nreq > 0
  /\ fs.nopen = 0 /\ is_exists

\* C20: is-downloading is true only while a start call is executing: in
\* every state where no start call is in progress, also after a start call
\* ended by propagating a failure (from opening the file, a blob request, a
\* listener raising during started or updated), the flag is false.
C20_FlagFalseWhenIdle == Idle => ~is_downloading

\* the counter at which frame f issued its blob request
RequestedAt(f) == Cum(layers, f.layer - 1) + f.layer_downloaded

\* C19: every start call that passes the guard ends, provided every blob
\* request returns: the loop issues only finitely many blob requests,
\* whatever number of bytes each response delivers. The loop of lines 356-357
\* ends when the counter reaches the total, so this is: every blob request
\* that returns leaves the counter above the value it was issued at; a request
\* that does not puts the call back at line 356 in the state it issued the
\* request in, to issue it again.
C19_EveryRequestAdvances ==
  \A td \in Frames :
    Streamed(Frame(td)) => downloaded > RequestedAt(Frame(td))

\* the attribute that caches what endpoint e answered
AttrOf(e) ==
  IF e = "token" THEN TokenAttr
  ELSE IF e = "manifests" THEN ManifestsAttr ELSE ManifestAttr(e)

Cached(e) == AttrOf(e) \in DOMAIN attrs

\* the archs the registry's manifest list has an entry for
Listed == {manifests[i].architecture : i \in DOMAIN manifests}

\* C13: for one DockerImage object and any sequence of accesses, each
\* distinct network fetch (the token, the manifest list, the manifest of a
\* given arch) is issued at most once; later accesses return the cached value.
C13_FetchedAtMostOnce == \A e \in Endpoints : nfetch[e] <= 1

\* C13, amended: a fetch that succeeded is never issued again: its value is
\* cached by the access that fetched it, and from then on no access issues a
\* request to that endpoint or changes the value; an access that returns has
\* everything it read cached; an access issues at most one request to an
\* endpoint. (A fetch that failed caches nothing and is issued again by the
\* next access that needs it.)
C13_FetchedOnceCached ==
  /\ [][\A e \in Endpoints :
          /\ nfetch'[e] <= nfetch[e] + 1
          /\ Cached(e) =>
               /\ nfetch'[e] = nfetch[e]
               /\ AttrOf(e) \in DOMAIN attrs'
               /\ attrs'[AttrOf(e)] = attrs[AttrOf(e)]]_vars
  /\ [](/\ \A e \in Endpoints : Cached(e) => nfetch[e] >= 1
        /\ last.ok /\ last.op = "token" => Cached("token")
        /\ last.ok /\ last.op = "image_manifests" =>
             Cached("token") /\ Cached("manifests")
        /\ last.ok /\ last.op \in {"get_layers", "create_downloader", "start"} =>
             Cached("token") /\ Cached("manifests") /\ Cached(last.arch))

\* get_layers is answered from the cache, the manifest list having been
\* fetched twice: once failing, once succeeding
C13_Witness ==
  /\ last.op = "get_layers" /\ last.ok
  /\ last.list_status = 0 /\ last.arch_status = 0
  /\ nfetch["manifests"] = 2 /\ nfetch[last.arch] = 1

\* C14: requesting an arch that has no entry in the manifest list raises
\* "No image for arch: <arch>", and no arch-manifest fetch and no blob fetch
\* is ever performed for it, whether the request comes through get_layers,
\* the construction of a download session, or start: no session for it
\* comes to exist. (The manifest list is the one the object has obtained.)
C14_NoImageForArch ==
  /\ \A a \in Archs \ Listed :
       nfetch[a] = 0 /\ a \notin sessions /\ a \notin blob_archs /\ ~Cached(a)
  /\ /\ last.op \in {"get_layers", "create_downloader", "start"}
     /\ last.arch \notin Listed
     /\ Cached("manifests")
     => /\ ~last.ok
        /\ last.raised = <<"No image for arch: ", last.arch>>
        /\ last.arch_status = 0

\* a download session was asked for an arch that the list, which has
\* entries, does not have
C14_Witness ==
  /\ last.op = "create_downloader" /\ last.arch \notin Listed
  /\ manifests # <<>> /\ Cached("manifests")
  /\ last.raised = <<"No image for arch: ", last.arch>>

Contains(msg, part) == \E i \in DOMAIN msg : msg[i] = part

\* the message carries the status code and the body of a response
CarriesStatusAndBody(msg, st) ==
  Contains(msg, StatusText(st)) /\ Contains(msg, Response(st).text)

\* C18: any 401 from the manifest endpoint, for the manifest-list fetch by
\* tag and the arch-manifest fetch by digest alike, raises a manifest error
\* whose message contains the Www-Authenticate header value verbatim; any
\* other non-2xx response raises a manifest error carrying the status code
\* and the body.
C18_Challenge401 ==
  /\ last.list_status = 401 \/ last.arch_status = 401 =>
       ~last.ok /\ Contains(last.raised, Challenge)
  /\ last.list_status = 404 =>
       ~last.ok /\ CarriesStatusAndBody(last.raised, 404)
  /\ last.arch_status = 404 =>
       ~last.ok /\ CarriesStatusAndBody(last.raised, 404)

\* C18, amended: a 401 from the manifest-list fetch by tag raises a manifest
\* error whose message is "Failed to get manifests: Required Token: "
\* followed by the Www-Authenticate header value verbatim; any other non-2xx
\* from the manifest-list fetch, and every non-2xx from the arch-manifest
\* fetch by digest, a 401 included, raises a manifest error carrying the
\* status code and the body, the 401 of the arch-manifest fetch without the
\* header value.
C18_ChallengeOnListOnly ==
  /\ last.list_status = 401 =>
       /\ ~last.ok
       /\ last.raised = <<"Failed to get manifests: Required Token: ", Challenge>>
  /\ last.list_status = 404 =>
       /\ ~last.ok
       /\ last.raised[1] = "Failed to get manifests: "
       /\ CarriesStatusAndBody(last.raised, 404)
  /\ \A st \in {401, 404} :
       last.arch_status = st =>
         /\ ~last.ok
         /\ last.raised[1] = "Failed to get manifest: "
         /\ CarriesStatusAndBody(last.raised, st)
         /\ ~Contains(last.raised, Challenge)

\* the arch-manifest fetch was answered 401, after the manifest list was
\* answered 401 once
C18_Witness ==
  /\ last.arch_status = 401 /\ ~last.ok
  /\ nfetch["manifests"] = 2

\* thread t is in the fan-out of an emit
FanningOut(t) == sig[t].op = "emit" /\ sig[t].pc \in {"iterate", "listener"}

\* C15: under any interleaving of emit with connect, disconnect and clear
\* calls from other threads on the same signal, one emit call invokes
\* exactly the listeners subscribed at the moment it acquired the lock,
\* synchronously on the calling thread and in subscription order, and a
\* concurrent mutation of the list takes effect entirely before or entirely
\* after that fan-out: during the fan-out the emitting thread holds the lock,
\* the list is the one of that moment and the listeners invoked so far are
\* its first ones in order; an emit that returned invoked all of them, and
\* one that a raising listener ended invoked those up to that listener.
C15_EmitFansOutSnapshot ==
  /\ [](\A t \in Threads :
          /\ FanningOut(t) =>
               /\ lock = t
               /\ listeners = sig[t].snap
               /\ sig[t].invoked = SubSeq(sig[t].snap, 1, sig[t].idx - 1)
          /\ sig[t].op = "emit" /\ sig[t].pc = "idle" =>
               IF sig[t].raised
               THEN /\ sig[t].invoked # <<>>
                    /\ sig[t].invoked = SubSeq(sig[t].snap, 1, Len(sig[t].invoked))
               ELSE sig[t].invoked = sig[t].snap)
  /\ [][listeners' # listeners => \A t \in Threads : ~FanningOut(t)]_vars

\* an emit is between its two listeners while another thread's clear waits
\* for the lock
C15_Witness ==
  \E t, u \in Threads :
    /\ sig[t].op = "emit" /\ sig[t].pc = "listener"
    /\ Len(sig[t].snap) = 2 /\ Len(sig[t].invoked) = 1
    /\ sig[u].op = "clear" /\ sig[u].pc = "acquire"

\* the number of times c occurs in s
Count(c, s) == Cardinality({i \in DOMAIN s : s[i] = c})

\* what follows the first '/' of s, s itself when it has none
AfterSlash(s) ==
  IF ~In("/", s) THEN s
  ELSE SubSeq(s, 1 + CHOOSE i \in DOMAIN s :
                       s[i] = "/" /\ \A j \in 1..(i - 1) : s[j] # "/", Len(s))

\* at most one '/', and at most one ':' after it
WellFormed(s) == Count("/", s) <= 1 /\ Count(":", AfterSlash(s)) <= 1

SameThree ==
  /\ parse_image_name(<<"library", "/", "ubuntu", ":", "latest">>)
       = Triple(<<"library">>, <<"ubuntu">>, <<"latest">>)
  /\ parse_image_name(<<"ubuntu", ":", "latest">>)
       = Triple(<<"library">>, <<"ubuntu">>, <<"latest">>)
  /\ parse_image_name(<<"ubuntu">>)
       = Triple(<<"library">>, <<"ubuntu">>, <<"latest">>)

\* C17: parsing an image reference yields (repository, name, tag), the
\* repository defaulting to "library" and the tag to "latest", so that
\* "library/ubuntu:latest", "ubuntu:latest" and "ubuntu" parse to the same
\* triple; for every input string the parse returns a triple, whose parts
\* re-joined as <repo>/<name>:<tag> denote the same image (parse to it).
C17_EveryNameParses ==
  /\ SameThree
  /\ parsed.state # "none" =>
       /\ parsed.state = "ok"
       /\ parse_image_name(ImageNameOf(parsed)) = parsed

\* C17, amended: the three names parse to the same triple; the parse
\* returns a triple exactly for the input strings with at most one '/' and
\* at most one ':' after it, and raises ValueError for every other string;
\* a triple returned has the repository "library" when the input has no '/'
\* and the tag "latest" when it has no ':' after the '/', and its parts
\* re-joined as <repo>/<name>:<tag> parse to the same triple.
C17_WellFormedNamesParse ==
  /\ SameThree
  /\ parsed.state # "none" =>
       IF WellFormed(image_name)
       THEN /\ parsed.state = "ok"
            /\ ~In("/", image_name) => parsed.repo = <<"library">>
            /\ ~In(":", AfterSlash(image_name)) =>
                 parsed.tag = <<"latest">> /\ parsed.name = AfterSlash(image_name)
            /\ ~In("/", parsed.name) /\ ~In(":", parsed.name)
            /\ parse_image_name(ImageNameOf(parsed)) = parsed
       ELSE parsed = ValueError

\* "ubuntu" was parsed, with both defaults
C17_Witness ==
  /\ image_name = <<"ubuntu">>
  /\ parsed = Triple(<<"library">>, <<"ubuntu">>, <<"latest">>)

\* thread t is in a call that a listener made on the signal invoking it, and
\* waits for the lock that its own emit holds
Blocked(t) == sig[t].outer # <<>> /\ sig[t].pc = "acquire" /\ lock = t

\* C21: an emit always returns once each invoked listener returns, as long
\* as no listener operates on the signal that is invoking it: every emit
\* called comes to its end unless some listener has made such a call; a
\* listener that, while emit invokes it, calls connect, disconnect, clear or
\* emit of that signal blocks forever on the lock, which is not reentrant:
\* every such call waits for the lock its own thread holds, and from then on
\* neither the call nor the emit around it nor the lock ever changes, so the
\* emit, and the start() that called it, never returns.
C21_ReentrantListenerDeadlocks ==
  /\ \A t \in Threads :
       (sig[t].op = "emit" /\ sig[t].pc # "idle")
         ~> (\/ sig[t].op = "emit" /\ sig[t].pc = "idle"
             \/ \E u \in Threads : Blocked(u))
  /\ [](\A t \in Threads :
          sig[t].outer # <<>> =>
            /\ Blocked(t)
            /\ sig[t].outer[1].op = "emit"
            /\ sig[t].outer[1].pc = "listener"
            /\ sig[t].outer[1].outer = <<>>)
  /\ [][\A t \in Threads :
          Blocked(t) => sig'[t] = sig[t] /\ lock' = lock /\ Blocked(t)']_vars

\* a listener has called connect on the signal invoking it and is blocked,
\* after an emit of the other thread had invoked its listeners and returned
C21_Witness ==
  \E t, u \in Threads :
    /\ Blocked(t) /\ sig[t].op = "connect"
    /\ sig[u].op = "emit" /\ sig[u].pc = "idle"
    /\ ~sig[u].raised /\ sig[u].invoked # <<>>

====
